---- MODULE Spec2Model ----
(***************************************************************************)
(* A model of the console address-book assistant of src/main.py: the field *)
(* validators, Record, AddressBook, the command layer with its input_error *)
(* adapter, and the session loop of main().                                *)
(*                                                                         *)
(* A Python str is modelled as a sequence of one-character strings, so     *)
(* that len(), isdigit() and strptime() are computed character by          *)
(* character.  Text that the program only returns or displays is a TLA+    *)
(* string, built with Str and \o.  A raised exception is modelled as an    *)
(* outcome record whose field exc names the exception class; the state an  *)
(* operation had reached when it raised is part of the outcome, because    *)
(* Python objects are mutated in place.                                    *)
(***************************************************************************)
EXTENDS Integers, Sequences, FiniteSets, TLC

VARIABLES
    book,      \* the AddressBook: entries [key, rec] in dict insertion order
    pc,        \* position of main(): "start", "prompt", "ran", "done", "crashed"
    store,     \* contents of addressbook.pkl
    reads,     \* number of times load_data opened the store
    writes,    \* number of times save_data wrote the store
    command,   \* the command of the line being processed (after parse_input)
    args,      \* the arguments of the line being processed
    result,    \* the string handed to view.display for that line
    raised,    \* exception class that escaped to main(), or "none"
    today,     \* datetime.today().date() read by the command just run, if any
    upcoming   \* the list get_upcoming_birthdays returned to that command

vars == <<book, pc, store, reads, writes, command, args, result, raised,
          today, upcoming>>

----------------------------------------------------------------------------
(* Characters and strings                                                  *)

AsciiDigits == {"0", "1", "2", "3", "4", "5", "6", "7", "8", "9"}

\* SUPERSCRIPT TWO (U+00B2) is written "^" here: one character for which
\* str.isdigit() is True although it is no decimal digit.
SuperscriptTwo == "^"

\* str.isdigit() is True for the characters of Unicode Numeric_Type Digit or
\* Decimal; within the alphabet of the model these are 0-9 and U+00B2.
IsDigitChar(c) == c \in AsciiDigits \/ c = SuperscriptTwo

\* str.isdigit(): non-empty and every character a digit
isdigit(s) == Len(s) > 0 /\ \A i \in 1..Len(s) : IsDigitChar(s[i])

RECURSIVE Str(_)
\* the text of a character sequence
Str(s) == IF s = <<>> THEN "" ELSE Head(s) \o Str(Tail(s))

RECURSIVE Join(_, _)
\* sep.join(items) for a sequence of texts
Join(sep, items) ==
    IF items = <<>> THEN ""
    ELSE IF Len(items) = 1 THEN items[1]
    ELSE items[1] \o sep \o Join(sep, Tail(items))

Rep(c, n) == [i \in 1..n |-> c]

DigitVal(c) ==
    CASE c = "0" -> 0 [] c = "1" -> 1 [] c = "2" -> 2 [] c = "3" -> 3
      [] c = "4" -> 4 [] c = "5" -> 5 [] c = "6" -> 6 [] c = "7" -> 7
      [] c = "8" -> 8 [] c = "9" -> 9

DigitText(n) ==
    CASE n = 0 -> "0" [] n = 1 -> "1" [] n = 2 -> "2" [] n = 3 -> "3"
      [] n = 4 -> "4" [] n = 5 -> "5" [] n = 6 -> "6" [] n = 7 -> "7"
      [] n = 8 -> "8" [] n = 9 -> "9"

RECURSIVE IntOf(_)
\* int(s) for a sequence of ASCII digits
IntOf(s) == IF s = <<>> THEN 0
            ELSE 10 * IntOf(SubSeq(s, 1, Len(s) - 1)) + DigitVal(s[Len(s)])

\* "%02d" % n and "%04d" % n
Pad2(n) == DigitText((n \div 10) % 10) \o DigitText(n % 10)
Pad4(n) == DigitText((n \div 1000) % 10) \o DigitText((n \div 100) % 10)
               \o Pad2(n % 100)

----------------------------------------------------------------------------
(* Outcomes of operations that may raise                                   *)

NoExc == "none"

----------------------------------------------------------------------------
(* Field validators                                                        *)

PhoneLen == 10

MsgPhoneLen == "Phone number must be 10 digits long."
MsgDateFormat == "Invalid date format. Use DD.MM.YYYY"

\* the condition of Phone.__init__
PhoneAccepts(value) == Len(value) = PhoneLen /\ isdigit(value)

\* Phone(value): the stored value, or ValueError
Phone(value) ==
    IF PhoneAccepts(value)
    THEN [exc |-> NoExc, msg |-> "", value |-> value]
    ELSE [exc |-> "ValueError", msg |-> MsgPhoneLen, value |-> value]

(* Calendar arithmetic of datetime.date *)

IsLeap(y) == (y % 4 = 0) /\ ((y % 100 # 0) \/ (y % 400 = 0))

DaysInMonth(y, m) ==
    IF m = 2 THEN (IF IsLeap(y) THEN 29 ELSE 28)
    ELSE IF m \in {4, 6, 9, 11} THEN 30 ELSE 31

RECURSIVE DaysBeforeMonth(_, _)
DaysBeforeMonth(y, m) ==
    IF m = 1 THEN 0 ELSE DaysBeforeMonth(y, m - 1) + DaysInMonth(y, m - 1)

DaysBeforeYear(y) ==
    (y - 1) * 365 + ((y - 1) \div 4) - ((y - 1) \div 100) + ((y - 1) \div 400)

\* date.toordinal()
ToOrdinal(dt) == DaysBeforeYear(dt.y) + DaysBeforeMonth(dt.y, dt.m) + dt.d

\* date.weekday(): Monday = 0 ... Sunday = 6
Weekday(dt) == (ToOrdinal(dt) + 6) % 7

\* d1 < d2 on dates
DateLess(d1, d2) == ToOrdinal(d1) < ToOrdinal(d2)

NextDay(dt) ==
    IF dt.d < DaysInMonth(dt.y, dt.m) THEN [dt EXCEPT !.d = dt.d + 1]
    ELSE IF dt.m < 12 THEN [y |-> dt.y, m |-> dt.m + 1, d |-> 1]
    ELSE [y |-> dt.y + 1, m |-> 1, d |-> 1]

RECURSIVE AddDays(_, _)
\* dt + timedelta(days = n), n >= 0
AddDays(dt, n) == IF n = 0 THEN dt ELSE AddDays(NextDay(dt), n - 1)

\* date.replace(year = y): ValueError when the day does not exist in year y
ReplaceYear(dt, y) ==
    IF dt.d <= DaysInMonth(y, dt.m)
    THEN [exc |-> NoExc, date |-> [dt EXCEPT !.y = y]]
    ELSE [exc |-> "ValueError", date |-> dt]

\* date.strftime("%d.%m.%Y")
FormatDate(dt) == Pad2(dt.d) \o "." \o Pad2(dt.m) \o "." \o Pad4(dt.y)

\* index of the first "." of s at or after position i, or 0
RECURSIVE FindDot(_, _)
FindDot(s, i) ==
    IF i > Len(s) THEN 0 ELSE IF s[i] = "." THEN i ELSE FindDot(s, i + 1)

\* the alternatives of strptime's %d: 3[0-1] | [1-2]\d | 0[1-9] | [1-9]
MatchesDay(s) ==
    \/ Len(s) = 2 /\ s[1] = "3" /\ s[2] \in {"0", "1"}
    \/ Len(s) = 2 /\ s[1] \in {"1", "2"} /\ s[2] \in AsciiDigits
    \/ Len(s) = 2 /\ s[1] = "0" /\ s[2] \in AsciiDigits \ {"0"}
    \/ Len(s) = 1 /\ s[1] \in AsciiDigits \ {"0"}

\* the alternatives of strptime's %m: 1[0-2] | 0[1-9] | [1-9]
MatchesMonth(s) ==
    \/ Len(s) = 2 /\ s[1] = "1" /\ s[2] \in {"0", "1", "2"}
    \/ Len(s) = 2 /\ s[1] = "0" /\ s[2] \in AsciiDigits \ {"0"}
    \/ Len(s) = 1 /\ s[1] \in AsciiDigits \ {"0"}

\* strptime's %Y: \d\d\d\d
MatchesYear(s) == Len(s) = 4 /\ \A i \in 1..4 : s[i] \in AsciiDigits

\* datetime.strptime(value, "%d.%m.%Y").date(): the date, or ValueError
strptime(value) ==
    LET bad == [exc |-> "ValueError", date |-> [y |-> 0, m |-> 0, d |-> 0]]
        p1 == FindDot(value, 1)
        p2 == IF p1 = 0 THEN 0 ELSE FindDot(value, p1 + 1)
    IN  IF p1 = 0 \/ p2 = 0 THEN bad
        ELSE LET ds == SubSeq(value, 1, p1 - 1)
                 ms == SubSeq(value, p1 + 1, p2 - 1)
                 ys == SubSeq(value, p2 + 1, Len(value))
             IN  IF ~(MatchesDay(ds) /\ MatchesMonth(ms) /\ MatchesYear(ys))
                 THEN bad
                 ELSE LET y == IntOf(ys)
                          m == IntOf(ms)
                          d == IntOf(ds)
                      IN  IF y < 1 \/ d > DaysInMonth(y, m) THEN bad
                          ELSE [exc |-> NoExc,
                                date |-> [y |-> y, m |-> m, d |-> d]]

\* Birthday(value): the stored value, or ValueError
Birthday(value) ==
    IF strptime(value).exc = NoExc
    THEN [exc |-> NoExc, msg |-> "", value |-> value]
    ELSE [exc |-> "ValueError", msg |-> MsgDateFormat, value |-> value]

\* Birthday.to_datetime().date() of a stored (hence valid) birthday
to_datetime(value) == strptime(value).date

----------------------------------------------------------------------------
(* Record                                                                  *)

NoBirthday == <<>>

\* Record(name)
NewRecord(name) == [name |-> name, phones |-> <<>>, birthday |-> NoBirthday]

\* Record.find_phone: the index of the first phone equal to phone_number, or
\* 0 for None
find_phone(phones, phone_number) ==
    IF \E i \in 1..Len(phones) : phones[i] = phone_number
    THEN CHOOSE i \in 1..Len(phones) :
             /\ phones[i] = phone_number
             /\ \A j \in 1..(i - 1) : phones[j] # phone_number
    ELSE 0

MsgExists(phone) == "Phone number '" \o Str(phone) \o "' already exists."
MsgNotFound(phone) == "Phone number '" \o Str(phone) \o "' not found."

\* list.remove(x) at a known index
RemoveAt(s, i) == SubSeq(s, 1, i - 1) \o SubSeq(s, i + 1, Len(s))

\* add_phone as it would be without its find_phone test
add_phone_NoDup(phones, phone) ==
    LET p == Phone(phone)
    IN  IF p.exc # NoExc
        THEN [exc |-> p.exc, msg |-> p.msg, phones |-> phones]
        ELSE [exc |-> NoExc, msg |-> "", phones |-> Append(phones, p.value)]

\* Record.add_phone: outcome with the phones the Record holds afterwards
add_phone(phones, phone) ==
    IF find_phone(phones, phone) # 0
    THEN [exc |-> "ValueError", msg |-> MsgExists(phone), phones |-> phones]
    ELSE LET p == Phone(phone)
         IN  IF p.exc # NoExc
             THEN [exc |-> p.exc, msg |-> p.msg, phones |-> phones]
             ELSE [exc |-> NoExc, msg |-> "", phones |-> Append(phones, p.value)]

\* Record.remove_phone
remove_phone(phones, phone_number) ==
    LET i == find_phone(phones, phone_number)
    IN  IF i = 0
        THEN [exc |-> "ValueError", msg |-> MsgNotFound(phone_number),
              phones |-> phones]
        ELSE [exc |-> NoExc, msg |-> "", phones |-> RemoveAt(phones, i)]

\* edit_phone as it would be with remove_phone(old_phone) run first
edit_phone_RemoveFirst(phones, old_phone, new_phone) ==
    IF find_phone(phones, new_phone) # 0
    THEN [exc |-> "ValueError", msg |-> MsgExists(new_phone), phones |-> phones]
    ELSE LET r == remove_phone(phones, old_phone)
         IN  IF r.exc # NoExc THEN r
             ELSE add_phone(r.phones, new_phone)

\* Record.edit_phone: add_phone(new_phone) runs before remove_phone(old_phone)
edit_phone(phones, old_phone, new_phone) ==
    IF find_phone(phones, new_phone) # 0
    THEN [exc |-> "ValueError", msg |-> MsgExists(new_phone), phones |-> phones]
    ELSE LET a == add_phone(phones, new_phone)
         IN  IF a.exc # NoExc THEN a
             ELSE remove_phone(a.phones, old_phone)

\* add_birthday as it would be with the value stored before it is validated
add_birthday_rec_StoreFirst(rec, birthday) ==
    LET b == Birthday(birthday)
    IN  IF b.exc # NoExc
        THEN [exc |-> b.exc, msg |-> b.msg, birthday |-> birthday]
        ELSE [exc |-> NoExc, msg |-> "", birthday |-> b.value]

\* Record.add_birthday: outcome with the birthday the Record holds afterwards
add_birthday_rec(rec, birthday) ==
    LET b == Birthday(birthday)
    IN  IF b.exc # NoExc
        THEN [exc |-> b.exc, msg |-> b.msg, birthday |-> rec.birthday]
        ELSE [exc |-> NoExc, msg |-> "", birthday |-> b.value]

\* Record.__str__
RecordStr(rec) ==
    "Contact name: " \o Str(rec.name) \o ", phones: "
        \o Join("; ", [i \in 1..Len(rec.phones) |-> Str(rec.phones[i])])
        \o (IF rec.birthday # NoBirthday
            THEN ", birthday: " \o Str(rec.birthday) ELSE "")

----------------------------------------------------------------------------
(* AddressBook: a dict, modelled as the sequence of its entries in         *)
(* insertion order                                                         *)

EmptyBook == <<>>

Keys(b) == {b[i].key : i \in 1..Len(b)}

\* position of key name in b, or 0
IndexOf(b, name) ==
    IF \E i \in 1..Len(b) : b[i].key = name
    THEN CHOOSE i \in 1..Len(b) : b[i].key = name
    ELSE 0

\* AddressBook.find / dict.get: the Record, used only when name is a key
find(b, name) == b[IndexOf(b, name)].rec

\* AddressBook.add_record: self.data[record.name.value] = record
add_record(b, record) ==
    LET i == IndexOf(b, record.name)
    IN  IF i = 0 THEN Append(b, [key |-> record.name, rec |-> record])
        ELSE [b EXCEPT ![i] = [key |-> record.name, rec |-> record]]

\* the book after the Record stored under name was mutated into rec
SetRecord(b, name, rec) == [b EXCEPT ![IndexOf(b, name)].rec = rec]

\* del as it would be if it dropped the oldest entry (popitem-like)
DelKey_First(b, name) == Tail(b)

\* del self.data[name]
DelKey(b, name) == RemoveAt(b, IndexOf(b, name))

\* delete as it would be with self.data.pop(name, None)
delete_NoCheck(b, name) ==
    [exc |-> NoExc, book |-> IF IndexOf(b, name) # 0 THEN DelKey(b, name) ELSE b]

\* AddressBook.delete
delete(b, name) ==
    IF IndexOf(b, name) # 0
    THEN [exc |-> NoExc, book |-> DelKey(b, name)]
    ELSE [exc |-> "KeyError", book |-> b]

WindowDays == 7
Saturday == 5

\* the loop body as it would be without the weekend shift
UpcomingItem_NoShift(rec, tday) ==
    LET bday == to_datetime(rec.birthday)
        r1 == ReplaceYear(bday, tday.y)
    IN  IF r1.exc # NoExc THEN [exc |-> r1.exc, items |-> <<>>]
        ELSE LET r2 == IF DateLess(r1.date, tday)
                       THEN ReplaceYear(r1.date, tday.y + 1) ELSE r1
             IN  IF r2.exc # NoExc THEN [exc |-> r2.exc, items |-> <<>>]
                 ELSE LET bday_this_year == r2.date
                          days_diff == ToOrdinal(bday_this_year) - ToOrdinal(tday)
                      IN  IF 0 <= days_diff /\ days_diff <= WindowDays
                          THEN [exc |-> NoExc,
                                items |-> <<[name |-> rec.name,
                                             date |-> bday_this_year,
                                             birthday |-> FormatDate(bday_this_year)]>>]
                          ELSE [exc |-> NoExc, items |-> <<>>]

\* one pass of the loop body of get_upcoming_birthdays for a Record with a
\* birthday: the item to append, nothing, or ValueError from date.replace
UpcomingItem(rec, tday) ==
    LET bday == to_datetime(rec.birthday)
        r1 == ReplaceYear(bday, tday.y)
    IN  IF r1.exc # NoExc THEN [exc |-> r1.exc, items |-> <<>>]
        ELSE LET r2 == IF DateLess(r1.date, tday)
                       THEN ReplaceYear(r1.date, tday.y + 1) ELSE r1
             IN  IF r2.exc # NoExc THEN [exc |-> r2.exc, items |-> <<>>]
                 ELSE LET bday_this_year == r2.date
                          days_diff == ToOrdinal(bday_this_year) - ToOrdinal(tday)
                          wd == Weekday(bday_this_year)
                          congratulate_date ==
                              IF wd >= Saturday
                              THEN AddDays(bday_this_year, 7 - wd)
                              ELSE bday_this_year
                      IN  IF 0 <= days_diff /\ days_diff <= WindowDays
                          THEN [exc |-> NoExc,
                                items |-> <<[name |-> rec.name,
                                             date |-> congratulate_date,
                                             birthday |-> FormatDate(congratulate_date)]>>]
                          ELSE [exc |-> NoExc, items |-> <<>>]

RECURSIVE UpcomingFrom(_, _, _, _)
\* the loop of get_upcoming_birthdays from entry i on, acc appended so far
UpcomingFrom(b, tday, i, acc) ==
    IF i > Len(b) THEN [exc |-> NoExc, upcoming |-> acc]
    ELSE IF b[i].rec.birthday = NoBirthday
         THEN UpcomingFrom(b, tday, i + 1, acc)
         ELSE LET it == UpcomingItem(b[i].rec, tday)
              IN  IF it.exc # NoExc
                  THEN [exc |-> it.exc, upcoming |-> acc \o it.items]
                  ELSE UpcomingFrom(b, tday, i + 1, acc \o it.items)

\* AddressBook.get_upcoming_birthdays with datetime.today().date() = tday
get_upcoming_birthdays(b, tday) == UpcomingFrom(b, tday, 1, <<>>)

----------------------------------------------------------------------------
(* Command layer.  An undecorated command returns [exc, ret, book]: the    *)
(* exception it raised (or NoExc), the string it returned, and the book as *)
(* it left it.                                                             *)

MsgKey == "Contact not found."
MsgValue == "Give me name and phone please."
MsgIndex == "Invalid input. Please provide the correct number of arguments."

Return(text, b) == [exc |-> NoExc, ret |-> text, book |-> b]
RaiseIn(kind, b) == [exc |-> kind, ret |-> "", book |-> b]

\* input_error as it would be without its "except ValueError" clause
input_error_NoValue(o) ==
    IF o.exc = NoExc THEN o
    ELSE IF o.exc = "KeyError" THEN Return(MsgKey, o.book)
    ELSE IF o.exc = "IndexError" THEN Return(MsgIndex, o.book)
    ELSE o

\* the decorator input_error: KeyError, ValueError and IndexError become
\* strings, any other exception propagates
input_error(o) ==
    IF o.exc = NoExc THEN o
    ELSE IF o.exc = "KeyError" THEN Return(MsgKey, o.book)
    ELSE IF o.exc = "ValueError" THEN Return(MsgValue, o.book)
    ELSE IF o.exc = "IndexError" THEN Return(MsgIndex, o.book)
    ELSE o

\* add_contact as it would be without the lookup book.find(name), a new
\* Record being entered for every add
add_contact_NoFind(a, b) ==
    IF Len(a) # 2 THEN RaiseIn("ValueError", b)
    ELSE LET name == a[1]
             phone == a[2]
             record == NewRecord(name)
             r == add_phone(record.phones, phone)
             b2 == Append(b, [key |-> name,
                              rec |-> [record EXCEPT !.phones = r.phones]])
         IN  IF r.exc = NoExc THEN Return("Contact added.", b2)
             ELSE IF r.exc = "ValueError" THEN Return(r.msg, b2)
             ELSE RaiseIn(r.exc, b2)

\* add_contact: "name, phone = args" raises ValueError unless len(args) = 2
add_contact(a, b) ==
    IF Len(a) # 2 THEN RaiseIn("ValueError", b)
    ELSE LET name == a[1]
             phone == a[2]
             b1 == IF IndexOf(b, name) = 0
                   THEN add_record(b, NewRecord(name)) ELSE b
             record == find(b1, name)
             r == add_phone(record.phones, phone)
             b2 == SetRecord(b1, name, [record EXCEPT !.phones = r.phones])
         IN  IF r.exc = NoExc THEN Return("Contact added.", b2)
             ELSE IF r.exc = "ValueError" THEN Return(r.msg, b2)
             ELSE RaiseIn(r.exc, b2)

\* change_contact: "name, old_phone, new_phone = args"
change_contact(a, b) ==
    IF Len(a) # 3 THEN RaiseIn("ValueError", b)
    ELSE LET name == a[1]
             old_phone == a[2]
             new_phone == a[3]
         IN  IF IndexOf(b, name) = 0 THEN RaiseIn("KeyError", b)
             ELSE LET record == find(b, name)
                      r == edit_phone(record.phones, old_phone, new_phone)
                      b2 == SetRecord(b, name,
                                      [record EXCEPT !.phones = r.phones])
                  IN  IF r.exc = NoExc THEN Return("Phone updated.", b2)
                      ELSE RaiseIn(r.exc, b2)

\* show_phone: args[0] raises IndexError on an empty list
show_phone(a, b) ==
    IF Len(a) = 0 THEN RaiseIn("IndexError", b)
    ELSE LET name == a[1]
         IN  IF IndexOf(b, name) = 0 THEN RaiseIn("KeyError", b)
             ELSE LET record == find(b, name)
                  IN  Return(Join("; ", [i \in 1..Len(record.phones) |->
                                             Str(record.phones[i])]), b)

\* show_all
show_all(b) ==
    IF Len(b) = 0 THEN Return("No contacts saved.", b)
    ELSE Return(Join("\n", [i \in 1..Len(b) |-> RecordStr(b[i].rec)]), b)

\* remove_phone_command as it would be without "del contacts[name]"
remove_phone_command_Keep(a, b) ==
    IF Len(a) # 2 THEN RaiseIn("ValueError", b)
    ELSE LET name == a[1]
             phone == a[2]
         IN  IF IndexOf(b, name) = 0 THEN RaiseIn("KeyError", b)
             ELSE LET record == find(b, name)
                      r == remove_phone(record.phones, phone)
                      b2 == SetRecord(b, name,
                                      [record EXCEPT !.phones = r.phones])
                  IN  IF r.exc = "ValueError" THEN Return(r.msg, b2)
                      ELSE IF r.exc # NoExc THEN RaiseIn(r.exc, b2)
                      ELSE Return("Phone '" \o Str(phone)
                                      \o "' removed from contact '"
                                      \o Str(name) \o "'.", b2)

\* remove_phone_command
remove_phone_command(a, b) ==
    IF Len(a) # 2 THEN RaiseIn("ValueError", b)
    ELSE LET name == a[1]
             phone == a[2]
         IN  IF IndexOf(b, name) = 0 THEN RaiseIn("KeyError", b)
             ELSE LET record == find(b, name)
                      r == remove_phone(record.phones, phone)
                      b2 == SetRecord(b, name,
                                      [record EXCEPT !.phones = r.phones])
                  IN  IF r.exc = "ValueError" THEN Return(r.msg, b2)
                      ELSE IF r.exc # NoExc THEN RaiseIn(r.exc, b2)
                      ELSE IF r.phones = <<>>
                      THEN Return("Phone removed. Contact '" \o Str(name)
                                      \o "' deleted because no phones left.",
                                  DelKey(b2, name))
                      ELSE Return("Phone '" \o Str(phone)
                                      \o "' removed from contact '"
                                      \o Str(name) \o "'.", b2)

\* delet
delet(a, b) ==
    IF Len(a) = 0 THEN RaiseIn("IndexError", b)
    ELSE LET name == a[1]
             r == delete(b, name)
         IN  IF r.exc # NoExc THEN RaiseIn(r.exc, r.book)
             ELSE Return("Contact <" \o Str(name) \o "> deleted.", r.book)

\* add_birthday
add_birthday(a, b) ==
    IF Len(a) # 2 THEN RaiseIn("ValueError", b)
    ELSE LET name == a[1]
             bday == a[2]
         IN  IF IndexOf(b, name) = 0 THEN RaiseIn("KeyError", b)
             ELSE LET record == find(b, name)
                      r == add_birthday_rec(record, bday)
                      b2 == SetRecord(b, name,
                                      [record EXCEPT !.birthday = r.birthday])
                  IN  IF r.exc # NoExc THEN RaiseIn(r.exc, b2)
                      ELSE Return("Birthday added.", b2)

\* show_birthday
show_birthday(a, b) ==
    IF Len(a) = 0 THEN RaiseIn("IndexError", b)
    ELSE LET name == a[1]
         IN  IF IndexOf(b, name) = 0 THEN RaiseIn("KeyError", b)
             ELSE IF find(b, name).birthday = NoBirthday
             THEN RaiseIn("KeyError", b)
             ELSE Return(Str(find(b, name).birthday), b)

MsgNoUpcoming == "No upcoming birthdays this week."

\* the text birthdays builds from a non-empty list of upcoming items
RenderUpcoming(items) ==
    Join("\n", [i \in 1..Len(items) |->
                   Str(items[i].name) \o " - " \o items[i].birthday])

\* birthdays, u being the outcome of its call book.get_upcoming_birthdays()
birthdays(a, b, u) ==
    IF u.exc # NoExc THEN RaiseIn(u.exc, b)
    ELSE IF u.upcoming = <<>> THEN Return(MsgNoUpcoming, b)
    ELSE Return(RenderUpcoming(u.upcoming), b)

----------------------------------------------------------------------------
(* Inputs: the lines a user types.  A line is a first token and a list of  *)
(* arguments, as user_input.split() yields them.                           *)

alice == <<"a", "l", "i", "c", "e">>
bob == <<"b", "o", "b">>

P1 == Rep("1", PhoneLen)
P2 == Rep("2", PhoneLen)
PShort == <<"1", "2", "3">>
PLong == Rep("1", PhoneLen + 1)
PLetter == Rep("1", PhoneLen - 1) \o <<"a">>
PSuper == Rep(SuperscriptTwo, PhoneLen)

D29 == <<"2", "9", ".", "0", "2", ".", "2", "0", "0", "0">>
DMar == <<"0", "5", ".", "0", "3", ".", "1", "9", "9", "0">>
\* a date typed with a 1-digit day and month, and a day that does not exist
DOneDigit == <<"1", ".", "3", ".", "1", "9", "9", "0">>
DNoDay == <<"3", "1", ".", "0", "2", ".", "2", "0", "0", "0">>

Day(y, m, d) == [y |-> y, m |-> m, d |-> d]

\* longest argument list typed
MaxArgs == 4

\* a word that is neither a phone nor a date
Junk == <<"x">>

\* n followed by k filler words
Filled(n, k) == <<n>> \o Rep(Junk, k)

\* for a command that reads only args[0]: per name, one list of each length
NameLists(v) == {<<>>} \cup {Filled(n, k) : n \in v.names, k \in 0..(MaxArgs - 1)}

\* for a command that reads no argument: one list of each length
AnyLists(v) == {a \in NameLists(v) : a = <<>> \/ a[1] = alice}

\* for a command that unpacks its arguments: a name first, then every
\* choice of values; of the lists longer than three, one per name and length
ArgLists(v) ==
    NameLists(v)
      \cup {<<n, x>> : n \in v.names, x \in v.second}
      \cup {<<n, x, y>> : n \in v.names, x \in v.second, y \in v.third}

\* first tokens typed
CommandTokens ==
    {"add", "change", "phone", "all", "delet", "add-birthday",
     "show-birthday", "birthdays", "remove-phone", "hello", "help", "exit",
     "EXIT", "call"}

\* str.lower() on the first tokens typed
Lower(c) == IF c = "EXIT" THEN "exit" ELSE c

\* parse_input: the command is the lowered first token
parse_input(c, a) == [cmd |-> Lower(c), args |-> a]

NoDate == [y |-> 0, m |-> 0, d |-> 0]

MsgWelcome == "Welcome to the assistant bot!"
MsgEmpty == "Please enter a valid command. Write <help> to see all commands."
MsgHelp == "Supported commands: ..."
MsgHello == "How can I help you?"
MsgBye == "Good bye!"
MsgInvalid == "Invalid command."

----------------------------------------------------------------------------
(* The session: main()                                                     *)

\* addressbook.pkl: missing, present but not openable for reading (an
\* OSError other than FileNotFoundError), holding bytes that are no pickle,
\* or holding the pickle of a book
Absent == [kind |-> "absent", book |-> EmptyBook]
Unreadable == [kind |-> "unreadable", book |-> EmptyBook]
Corrupt == [kind |-> "corrupt", book |-> EmptyBook]
Saved(b) == [kind |-> "book", book |-> b]

\* load_data: only FileNotFoundError is caught
load_data(st) ==
    IF st.kind = "absent" THEN [exc |-> NoExc, book |-> EmptyBook]
    ELSE IF st.kind = "book" THEN [exc |-> NoExc, book |-> st.book]
    ELSE IF st.kind = "unreadable" THEN [exc |-> "OSError", book |-> EmptyBook]
    ELSE [exc |-> "UnpicklingError", book |-> EmptyBook]

Init ==
    /\ book = EmptyBook
    /\ pc = "start"
    /\ store \in {Absent, Unreadable, Corrupt}
    /\ reads = 0
    /\ writes = 0
    /\ command = ""
    /\ args = <<>>
    /\ result = ""
    /\ raised = NoExc
    /\ today = NoDate
    /\ upcoming = <<>>

\* main, lines 283-285
Load ==
    /\ pc = "start"
    /\ LET l == load_data(store)
       IN  /\ book' = l.book
           /\ raised' = l.exc
           /\ pc' = IF l.exc = NoExc THEN "ran" ELSE "crashed"
           /\ result' = IF l.exc = NoExc THEN MsgWelcome ELSE result
    /\ reads' = reads + 1
    /\ UNCHANGED <<store, writes, command, args, today, upcoming>>

\* main, line 287: back at the top of the loop, waiting in view.prompt; the
\* locals of the previous iteration are dead
Prompt ==
    /\ pc = "ran"
    /\ pc' = "prompt"
    /\ command' = ""
    /\ args' = <<>>
    /\ result' = ""
    /\ today' = NoDate
    /\ upcoming' = <<>>
    /\ UNCHANGED <<book, store, reads, writes, raised>>

\* the line was read and parsed, the command ran with outcome o, and its
\* string was displayed (or its exception left main)
Ran(p, o) ==
    /\ command' = p.cmd
    /\ args' = p.args
    /\ book' = o.book
    /\ raised' = o.exc
    /\ result' = IF o.exc = NoExc THEN o.ret ELSE ""
    /\ pc' = IF o.exc = NoExc THEN "ran" ELSE "crashed"
    /\ UNCHANGED <<store, reads, writes>>

NoClock == today' = NoDate /\ upcoming' = <<>>

\* main, lines 289-291: an empty line
EmptyLine ==
    /\ pc = "prompt"
    /\ result' = MsgEmpty
    /\ pc' = "ran"
    /\ UNCHANGED <<book, store, reads, writes, command, args, raised, today,
                   upcoming>>

\* the exit branch as it would be without its break
Exit_NoBreak(c, a) ==
    /\ pc = "prompt"
    /\ parse_input(c, a).cmd = "exit"
    /\ store' = Saved(book)
    /\ writes' = writes + 1
    /\ result' = MsgBye
    /\ pc' = "ran"
    /\ command' = "exit"
    /\ args' = a
    /\ UNCHANGED <<book, reads, raised, today, upcoming>>

\* main, lines 295-298
Exit(c, a) ==
    /\ pc = "prompt"
    /\ parse_input(c, a).cmd = "exit"
    /\ store' = Saved(book)
    /\ writes' = writes + 1
    /\ result' = MsgBye
    /\ pc' = "done"
    /\ command' = "exit"
    /\ args' = a
    /\ UNCHANGED <<book, reads, raised, today, upcoming>>

Help(c, a) ==
    /\ pc = "prompt"
    /\ parse_input(c, a).cmd = "help"
    /\ Ran(parse_input(c, a), Return(MsgHelp, book))
    /\ NoClock

Hello(c, a) ==
    /\ pc = "prompt"
    /\ parse_input(c, a).cmd = "hello"
    /\ Ran(parse_input(c, a), Return(MsgHello, book))
    /\ NoClock

Add(c, a) ==
    /\ pc = "prompt"
    /\ parse_input(c, a).cmd = "add"
    /\ Ran(parse_input(c, a), input_error(add_contact(a, book)))
    /\ NoClock

Change(c, a) ==
    /\ pc = "prompt"
    /\ parse_input(c, a).cmd = "change"
    /\ Ran(parse_input(c, a), input_error(change_contact(a, book)))
    /\ NoClock

ShowPhone(c, a) ==
    /\ pc = "prompt"
    /\ parse_input(c, a).cmd = "phone"
    /\ Ran(parse_input(c, a), input_error(show_phone(a, book)))
    /\ NoClock

ShowAll(c, a) ==
    /\ pc = "prompt"
    /\ parse_input(c, a).cmd = "all"
    /\ Ran(parse_input(c, a), input_error(show_all(book)))
    /\ NoClock

Delet(c, a) ==
    /\ pc = "prompt"
    /\ parse_input(c, a).cmd = "delet"
    /\ Ran(parse_input(c, a), input_error(delet(a, book)))
    /\ NoClock

AddBirthday(c, a) ==
    /\ pc = "prompt"
    /\ parse_input(c, a).cmd = "add-birthday"
    /\ Ran(parse_input(c, a), input_error(add_birthday(a, book)))
    /\ NoClock

ShowBirthday(c, a) ==
    /\ pc = "prompt"
    /\ parse_input(c, a).cmd = "show-birthday"
    /\ Ran(parse_input(c, a), input_error(show_birthday(a, book)))
    /\ NoClock

Birthdays(c, a, t) ==
    /\ pc = "prompt"
    /\ parse_input(c, a).cmd = "birthdays"
    /\ LET u == get_upcoming_birthdays(book, t)
       IN  /\ Ran(parse_input(c, a), input_error(birthdays(a, book, u)))
           /\ upcoming' = IF u.exc = NoExc THEN u.upcoming ELSE <<>>
    /\ today' = t

RemovePhone(c, a) ==
    /\ pc = "prompt"
    /\ parse_input(c, a).cmd = "remove-phone"
    /\ Ran(parse_input(c, a), input_error(remove_phone_command(a, book)))
    /\ NoClock

Commands ==
    {"exit", "help", "hello", "add", "change", "phone", "all", "delet",
     "add-birthday", "show-birthday", "birthdays", "remove-phone"}

\* main, lines 332-333
Invalid(c, a) ==
    /\ pc = "prompt"
    /\ parse_input(c, a).cmd \notin Commands
    /\ Ran(parse_input(c, a), Return(MsgInvalid, book))
    /\ NoClock

\* the first tokens that parse_input turns into command cmd
TokensFor(cmd) == {c \in CommandTokens : Lower(c) = cmd}
OtherTokens == {c \in CommandTokens : Lower(c) \notin Commands}

\* one iteration of the loop of main: a line over the words v, the clock
\* reading one of dates
Line(v, dates) ==
       \/ \E c \in TokensFor("exit"), a \in v.any : Exit(c, a)
       \/ \E c \in TokensFor("help"), a \in v.any : Help(c, a)
       \/ \E c \in TokensFor("hello"), a \in v.any : Hello(c, a)
       \/ \E c \in TokensFor("add"), a \in v.full : Add(c, a)
       \/ \E c \in TokensFor("change"), a \in v.full : Change(c, a)
       \/ \E c \in TokensFor("phone"), a \in v.named : ShowPhone(c, a)
       \/ \E c \in TokensFor("all"), a \in v.any : ShowAll(c, a)
       \/ \E c \in TokensFor("delet"), a \in v.named : Delet(c, a)
       \/ \E c \in TokensFor("add-birthday"), a \in v.full : AddBirthday(c, a)
       \/ \E c \in TokensFor("show-birthday"), a \in v.named :
              ShowBirthday(c, a)
       \/ \E c \in TokensFor("birthdays"), a \in v.any, t \in dates :
              Birthdays(c, a, t)
       \/ \E c \in TokensFor("remove-phone"), a \in v.full : RemovePhone(c, a)
       \/ \E c \in OtherTokens, a \in v.any : Invalid(c, a)

\* the argument lists typed over a vocabulary
Typed(v) == [full |-> ArgLists(v), named |-> NameLists(v), any |-> AnyLists(v)]

\* a session about phones: two valid phones and a malformed one
PhoneWords == Typed([names |-> {alice, bob},
                     second |-> {P1, P2, PShort},
                     third |-> {P1, P2, PShort}])
PhoneDates == {Day(2024, 6, 10)}

Next == Load \/ Prompt \/ EmptyLine \/ Line(PhoneWords, PhoneDates)

Spec == Init /\ [][Next]_vars

\* a session about birthdays: one phone, a birthday on 29 February and one
\* on 5 March
BirthdayWords == Typed([names |-> {alice, bob},
                        second |-> {P1, D29, DMar},
                        third |-> {P1}])

\* the days on which that session may run: in a leap year before and after
\* 29 February, in common years, with 5 March on a Saturday (2022) and on
\* the day itself (2025)
BirthdayDates == {Day(2024, 2, 25), Day(2024, 3, 1), Day(2023, 3, 1),
                  Day(2022, 3, 1), Day(2025, 3, 5)}

NextB == Load \/ Prompt \/ EmptyLine \/ Line(BirthdayWords, BirthdayDates)

SpecB == Init /\ [][NextB]_vars

\* a session about Unicode digits and malformed phones
DigitWords == Typed([names |-> {alice},
                     second |-> {P1, PSuper, PLetter, PLong},
                     third |-> {P1, PSuper, PLetter, PLong}])

NextU == Load \/ Prompt \/ EmptyLine \/ Line(DigitWords, PhoneDates)

SpecU == Init /\ [][NextU]_vars

\* a session about the forms of a date: a well-formed one, one with a
\* 1-digit day and month, one naming a day that does not exist
DateWords == Typed([names |-> {alice},
                    second |-> {P1, DMar, DOneDigit, DNoDay},
                    third |-> {P1}])

NextD == Load \/ Prompt \/ EmptyLine \/ Line(DateWords, PhoneDates)

SpecD == Init /\ [][NextD]_vars

----------------------------------------------------------------------------
(* Properties                                                              *)

\* the operations of the command layer
CommandLayer ==
    {"add", "change", "phone", "all", "add-birthday", "show-birthday",
     "birthdays", "remove-phone", "delet"}

\* the Phone validity predicate of the specification: exactly 10
\* characters, each a decimal digit 0-9
ValidPhone(s) == Len(s) = 10 /\ \A i \in 1..Len(s) : s[i] \in AsciiDigits

\* the phones of the contact name in book b
PhonesOf(b, name) == find(b, name).phones

\* C1: whatever the arguments and the book, a command-layer operation
\* returns a string to the session loop; no exception escapes it.
C1_NoFailureEscapes ==
    command \in CommandLayer => (raised = NoExc /\ pc = "ran")

\* a ValueError raised by date.replace inside birthdays was turned into the
\* adapter's string
C1_Witness ==
    /\ command = "birthdays"
    /\ result = MsgValue
    /\ raised = NoExc

\* the number of arguments the contract of a command requires
Arity(cmd) ==
    CASE cmd = "add" -> 2 [] cmd = "change" -> 3 [] cmd = "remove-phone" -> 2
      [] cmd = "add-birthday" -> 2 [] cmd = "phone" -> 1
      [] cmd = "show-birthday" -> 1 [] cmd = "delet" -> 1

\* too few arguments, or too many for the commands that unpack them
WrongArity(cmd, a) ==
    \/ cmd \in {"add", "change", "remove-phone", "add-birthday"}
         /\ Len(a) # Arity(cmd)
    \/ cmd \in {"phone", "show-birthday", "delet"} /\ Len(a) < Arity(cmd)

\* C2: a command invoked with the wrong number of arguments answers
\* "Invalid input. Please provide the correct number of arguments." and
\* leaves the book unchanged.
C2_WrongArityMessage ==
    [][(pc = "prompt" /\ WrongArity(command', args'))
          => (result' = MsgIndex /\ book' = book)]_vars

\* the failure of the Record operation behind add, change or remove-phone
\* with arguments a on the book b that holds a[1]
RecordFailure(cmd, a, b) ==
    CASE cmd = "add" -> add_phone(PhonesOf(b, a[1]), a[2])
      [] cmd = "change" -> edit_phone(PhonesOf(b, a[1]), a[2], a[3])
      [] cmd = "remove-phone" -> remove_phone(PhonesOf(b, a[1]), a[2])

\* C3: when the Record operation behind add, change or remove-phone fails
\* on an existing contact, the command answers that failure's own message,
\* never "Give me name and phone please.".
C3_OwnMessage ==
    [][(/\ pc = "prompt"
        /\ command' \in {"add", "change", "remove-phone"}
        /\ Len(args') = Arity(command')
        /\ args'[1] \in Keys(book)
        /\ RecordFailure(command', args', book).exc # NoExc)
          => (/\ result' = RecordFailure(command', args', book).msg
              /\ result' # MsgValue)]_vars

\* C4: change, phone, add-birthday, show-birthday, remove-phone and delet,
\* given the right number of arguments and a name that is no key of the
\* book, answer "Contact not found." and leave the book unchanged.
C4_ContactNotFound ==
    [][(/\ pc = "prompt"
        /\ command' \in {"change", "phone", "add-birthday", "show-birthday",
                         "remove-phone", "delet"}
        /\ Len(args') = Arity(command')
        /\ args'[1] \notin Keys(book))
          => (result' = MsgKey /\ book' = book)]_vars

\* change was given three arguments and a name the book does not hold
C4_Witness ==
    /\ command = "change"
    /\ Len(args) = 3
    /\ args[1] \notin Keys(book)
    /\ book # EmptyBook
    /\ result = MsgKey

\* C5: no Record holds two equal phones.
C5_DistinctPhones ==
    \A e \in 1..Len(book) :
        \A i, j \in 1..Len(book[e].rec.phones) :
            i # j => book[e].rec.phones[i] # book[e].rec.phones[j]

\* add was refused for a phone the contact, who has two phones, already has
C5_Witness ==
    /\ command = "add"
    /\ Len(args) = 2
    /\ args[1] \in Keys(book)
    /\ Len(PhonesOf(book, args[1])) = 2
    /\ result = MsgExists(args[2])

\* C6: every phone stored in every Record satisfies the Phone validity
\* predicate: exactly 10 characters, all of them decimal digits.
C6_StoredPhonesValid ==
    \A e \in 1..Len(book) :
        \A i \in 1..Len(book[e].rec.phones) : ValidPhone(book[e].rec.phones[i])

\* phones without the phone p, in the same order
Without(phones, p) == SelectSeq(phones, LAMBDA x : x # p)

\* the names listed by the command all on book b, in order
Listed(b) == [i \in 1..Len(b) |-> b[i].rec.name]

\* C7: remove-phone of the last phone of a contact deletes the contact: phone
\* then answers "Contact not found." and all does not list the contact; of
\* several phones, exactly that one is removed and the contact stays.
C7_LastPhoneDeletesContact ==
    [][(/\ pc = "prompt"
        /\ command' = "remove-phone"
        /\ Len(args') = 2
        /\ args'[1] \in Keys(book)
        /\ find_phone(PhonesOf(book, args'[1]), args'[2]) # 0)
          => IF Len(PhonesOf(book, args'[1])) = 1
             THEN /\ input_error(show_phone(<<args'[1]>>, book')).ret = MsgKey
                  /\ \A i \in 1..Len(book') : Listed(book')[i] # args'[1]
                  /\ Len(book') = Len(book) - 1
             ELSE /\ args'[1] \in Keys(book')
                  /\ PhonesOf(book', args'[1])
                       = Without(PhonesOf(book, args'[1]), args'[2])
                  /\ Len(book') = Len(book)]_vars

\* remove-phone took the only phone of alice, who is gone, while bob stays
C7_Witness ==
    /\ command = "remove-phone"
    /\ args = <<alice, P1>>
    /\ result = "Phone removed. Contact 'alice' deleted because no phones left."
    /\ Keys(book) = {bob}

\* C8, as claimed: editPhone(old, new) with new valid and absent and old
\* absent fails and leaves the phones with new appended; with new present it
\* fails and leaves the phones as they were.
C8_EditPhonePartial ==
    [][(/\ pc = "prompt"
        /\ command' = "change"
        /\ Len(args') = 3
        /\ args'[1] \in Keys(book))
          => LET before == PhonesOf(book, args'[1])
                 old == args'[2]
                 new == args'[3]
                 has(p) == \E i \in 1..Len(before) : before[i] = p
             IN  /\ (ValidPhone(new) /\ ~has(new) /\ ~has(old))
                      => /\ result' # "Phone updated."
                         /\ PhonesOf(book', args'[1]) = Append(before, new)
                 /\ has(new)
                      => /\ result' # "Phone updated."
                         /\ PhonesOf(book', args'[1]) = before]_vars

\* C8, amended: editPhone(old, new) with new valid and absent, old absent
\* and old different from new fails and leaves the phones with new
\* appended; with new present it fails and leaves the phones as they were.
C8_EditPhonePartialAmended ==
    [][(/\ pc = "prompt"
        /\ command' = "change"
        /\ Len(args') = 3
        /\ args'[1] \in Keys(book))
          => LET before == PhonesOf(book, args'[1])
                 old == args'[2]
                 new == args'[3]
                 has(p) == \E i \in 1..Len(before) : before[i] = p
             IN  /\ (ValidPhone(new) /\ ~has(new) /\ ~has(old) /\ old # new)
                      => /\ result' # "Phone updated."
                         /\ PhonesOf(book', args'[1]) = Append(before, new)
                 /\ has(new)
                      => /\ result' # "Phone updated."
                         /\ PhonesOf(book', args'[1]) = before]_vars

\* change was refused although its new phone P2 is now the second phone of
\* alice, and the old phone named is none of hers
C8_Witness ==
    /\ command = "change"
    /\ args = <<alice, PShort, P2>>
    /\ alice \in Keys(book)
    /\ PhonesOf(book, alice) = <<P1, P2>>
    /\ result = MsgValue

\* C9: birthdays answers the rendering of the upcoming-birthday list or
\* "No upcoming birthdays this week.", and nothing else.
C9_BirthdaysAnswers ==
    (command = "birthdays" /\ pc = "ran")
        => \/ result = MsgNoUpcoming
           \/ upcoming # <<>> /\ result = RenderUpcoming(upcoming)

\* the birthday bd (a date) occurs, this year or next, on a day 0 to 7 days
\* after the reference date t
DueWithinWeek(bd, t) ==
    \E y \in {t.y, t.y + 1} :
        /\ bd.d <= DaysInMonth(y, bd.m)
        /\ ToOrdinal(Day(y, bd.m, bd.d)) - ToOrdinal(t) \in 0..7

\* C10: upcomingBirthdays includes a contact exactly when the contact has a
\* birthday whose next occurrence is 0 to 7 days after the reference date.
C10_IncludedIffDue ==
    command = "birthdays"
        => \A e \in 1..Len(book) :
               (\E i \in 1..Len(upcoming) : upcoming[i].name = book[e].rec.name)
                   <=> /\ book[e].rec.birthday # NoBirthday
                       /\ DueWithinWeek(to_datetime(book[e].rec.birthday), today)

\* the next occurrence of the birthday bd on or after the reference date t:
\* this year, else next year
Projected(bd, t) ==
    IF bd.d <= DaysInMonth(t.y, bd.m) /\ ~DateLess(Day(t.y, bd.m, bd.d), t)
    THEN Day(t.y, bd.m, bd.d)
    ELSE Day(t.y + 1, bd.m, bd.d)

\* the congratulation date for a projected birthday: the following Monday
\* for a Saturday (2 days on) or a Sunday (1 day on), else the day itself
Congratulation(proj) ==
    IF Weekday(proj) = 5 THEN AddDays(proj, 2)
    ELSE IF Weekday(proj) = 6 THEN AddDays(proj, 1)
    ELSE proj

\* C11: every contact emitted by upcomingBirthdays carries as congratulation
\* date its projected birthday, moved to the following Monday when that is a
\* Saturday or a Sunday; the date is no Saturday, no Sunday, and not earlier
\* than the reference date.
C11_WeekendShift ==
    command = "birthdays"
        => \A i \in 1..Len(upcoming) :
               LET it == upcoming[i]
                   proj == Projected(to_datetime(find(book, it.name).birthday),
                                     today)
               IN  /\ it.birthday = FormatDate(Congratulation(proj))
                   /\ it.birthday = FormatDate(it.date)
                   /\ Weekday(it.date) \notin {5, 6}
                   /\ ~DateLess(it.date, today)

\* on Tuesday 01.03.2022 bob, born on 5 March, is to be congratulated on
\* Monday 07.03.2022, his birthday being a Saturday
C11_Witness ==
    /\ command = "birthdays"
    /\ today = Day(2022, 3, 1)
    /\ \E i \in 1..Len(upcoming) :
           upcoming[i].name = bob /\ upcoming[i].birthday = "07.03.2022"

\* C12: at session start a store that cannot be read (missing, unreadable
\* or corrupt) gives a session that goes on with an empty AddressBook;
\* startup never aborts the process.
C12_StartupDegrades ==
    [][(pc = "start" /\ store.kind # "book")
          => (pc' = "ran" /\ raised' = NoExc /\ book' = EmptyBook)]_vars

\* C13: the store is read exactly once, before the first command, and is
\* written only by exit: once, with the book as the last processed command
\* left it; no command is processed after that write.
C13_StoreAccess ==
    /\ [](reads = IF pc = "start" THEN 0 ELSE 1)
    /\ [](writes = IF pc = "done" THEN 1 ELSE 0)
    /\ [][reads' # reads => pc = "start"]_vars
    /\ [][(store' # store \/ writes' # writes)
            => /\ pc = "prompt"
               /\ command' = "exit"
               /\ store' = [kind |-> "book", book |-> book]
               /\ book' = book
               /\ writes' = writes + 1
               /\ pc' = "done"]_vars
    /\ [][pc # "done"]_vars

\* exit wrote a book of two contacts, once, in a session that read the
\* store once
C13_Witness ==
    /\ pc = "done"
    /\ command = "exit"
    /\ reads = 1
    /\ writes = 1
    /\ Len(book) = 2
    /\ store = [kind |-> "book", book |-> book]

C15_SingleBirthday ==
    /\ [][(/\ pc = "prompt"
           /\ command' = "add-birthday"
           /\ Len(args') = 2
           /\ args'[1] \in Keys(book))
             => IF result' = "Birthday added."
                THEN input_error(show_birthday(<<args'[1]>>, book')).ret
                         = Str(args'[2])
                ELSE /\ args'[1] \in Keys(book')
                     /\ find(book', args'[1]).birthday
                          = find(book, args'[1]).birthday]_vars
    /\ [][(/\ pc = "prompt"
           /\ command' = "show-birthday"
           /\ Len(args') = 1
           /\ args'[1] \in Keys(book)
           /\ find(book, args'[1]).birthday = NoBirthday)
             => (result' = MsgKey /\ book' = book)]_vars

\* add-birthday was refused for a word that is no date, and alice still has
\* her birthday of 29 February
C15_Witness ==
    /\ command = "add-birthday"
    /\ args = <<alice, P1>>
    /\ result = MsgValue
    /\ alice \in Keys(book)
    /\ find(book, alice).birthday = D29

\* C16: Phone validation accepts a string exactly when it has 10 characters,
\* each a decimal digit 0-9; an accepted string is stored unchanged, and a
\* rejection carries the message "Phone number must be 10 digits long.".
\* Observed through add with a phone the contact does not hold yet.
C16_PhoneValidation ==
    [][(/\ pc = "prompt"
        /\ command' = "add"
        /\ Len(args') = 2
        /\ (args'[1] \in Keys(book)
              => find_phone(PhonesOf(book, args'[1]), args'[2]) = 0))
          => IF ValidPhone(args'[2])
             THEN /\ result' = "Contact added."
                  /\ LET ps == PhonesOf(book', args'[1])
                     IN  ps # <<>> /\ ps[Len(ps)] = args'[2]
             ELSE /\ result' = MsgPhoneLen
                  /\ Phone(args'[2]).exc = "ValueError"]_vars

\* the Birthday validity predicate of the specification: the form
\* DD.MM.YYYY with a 2-digit day, a 2-digit month and a 4-digit year, naming
\* a real calendar date
ValidBirthday(s) ==
    /\ Len(s) = 10
    /\ s[3] = "." /\ s[6] = "."
    /\ \A i \in {1, 2, 4, 5, 7, 8, 9, 10} : s[i] \in AsciiDigits
    /\ LET d == IntOf(SubSeq(s, 1, 2))
           m == IntOf(SubSeq(s, 4, 5))
           y == IntOf(SubSeq(s, 7, 10))
       IN  y >= 1 /\ m \in 1..12 /\ d >= 1 /\ d <= DaysInMonth(y, m)

\* C17: Birthday validation accepts a string exactly when it has the form
\* DD.MM.YYYY and names a real calendar date; a string with a 1-digit day or
\* month, such as 1.3.1990, is rejected.  Observed through add-birthday on
\* an existing contact.
C17_BirthdayValidation ==
    [][(/\ pc = "prompt"
        /\ command' = "add-birthday"
        /\ Len(args') = 2
        /\ args'[1] \in Keys(book))
          => IF ValidBirthday(args'[2])
             THEN /\ result' = "Birthday added."
                  /\ find(book', args'[1]).birthday = args'[2]
             ELSE /\ result' # "Birthday added."
                  /\ find(book', args'[1]).birthday
                       = find(book, args'[1]).birthday]_vars

\* C18: every contact stored in the book has at least one phone; an add
\* that is rejected leaves no new phoneless contact behind.
C18_NoPhonelessContact ==
    \A e \in 1..Len(book) : book[e].rec.phones # <<>>

\* the entry of name m in book b, if any
EntryOf(b, m) == IF m \in Keys(b) THEN <<find(b, m)>> ELSE <<>>

\* C19: phone, all, show-birthday, birthdays, hello, help and every
\* unrecognized command leave the AddressBook unchanged, whatever their
\* arguments; a mutating command given the name n changes at most the entry
\* for n.
C19_Frame ==
    /\ [][(/\ pc = "prompt"
           /\ \/ command' \in {"phone", "all", "show-birthday", "birthdays",
                               "hello", "help"}
              \/ command' \notin Commands)
             => book' = book]_vars
    /\ [][(/\ pc = "prompt"
           /\ command' \in {"add", "change", "remove-phone", "delet",
                            "add-birthday"})
             => IF args' = <<>> THEN book' = book
                ELSE \A m \in (Keys(book) \cup Keys(book')) \ {args'[1]} :
                         EntryOf(book', m) = EntryOf(book, m)]_vars

\* delet removed bob, and alice, entered before him, is still in the book
C19_Witness ==
    /\ command = "delet"
    /\ args = <<bob>>
    /\ result = "Contact <bob> deleted."
    /\ Keys(book) = {alice}
    /\ PhonesOf(book, alice) # <<>>

====
